---- MODULE Spec2Model ----
(***************************************************************************)
(* Candidate consolidation and hybrid scoring of ReelRemix                 *)
(* (apps/python/src/services/segmentation.py and scoring.py).              *)
(*                                                                         *)
(* Units.  Times are whole seconds.                                        *)
(* A preliminary score is the double the code computes, in thousandths     *)
(* (0.6 is 600); the one double the boosts meet that is no decimal,        *)
(* 0.7999999999999999 and its like, is the thousandth below (799).         *)
(* The scores of score_segments are decimals: AI and heuristic scores in   *)
(* hundredths (0.5 is 50), a blended score in thousandths (0.7*ai +        *)
(* 0.3*heur is 7*ai + 3*heur).                                             *)
(* A text is the sequence of its characters over the alphabet {" ", "a"}:  *)
(* strip(), split() and len() are computed on the characters.              *)
(* A Python dict is a record; its object identity is the field oid.        *)
(***************************************************************************)
EXTENDS Integers, Sequences, FiniteSets, TLC

VARIABLES
    transcript,       \* transcript_result['segments']
    low_similarity,   \* per adjacent pair of segments: cosine similarity < 0.7
    cluster_labels,   \* the label KMeans gives each segment
    encoder,          \* what sentence_model.encode does: "ok" or "raises"
    pc,               \* position in generate_segments / _filter_segments
    pool,             \* all_segments: the pooled raw candidates
    filtered,         \* _filter_segments.filtered, then _remove_overlaps.segments
    idx,              \* position of the sweep of _remove_overlaps in filtered
    non_overlapping,  \* _remove_overlaps.non_overlapping
    shortlist,        \* the list _filter_segments returns
    final_segments,   \* the list generate_segments returns
    outcome,          \* how generate_segments ended: "none", "returned", "raised"
    spc,              \* position in score_segments
    segments,         \* score_segments.segments: the dicts, scored in place
    bi,               \* score_segments.i: the start of the current batch
    scored_segments,  \* score_segments.scored_segments, as positions in segments
    in_flight,        \* requests sent to the AI service and not yet answered
    requests,         \* the batches submitted so far: [first, size]
    responses,        \* what the AI service did for each batch answered so far
    events,           \* "submit", "return" and "sleep", in the order they happened
    result,           \* the list score_segments returns
    soutcome          \* how score_segments ended: "none", "returned", "raised", "cancelled"

cvars == <<pc, pool, filtered, idx, non_overlapping, shortlist, final_segments,
           outcome>>

svars == <<spc, segments, bi, scored_segments, in_flight, requests, responses,
           events, result, soutcome>>

\* the inputs of generate_segments, which no step changes
ivars == <<transcript, low_similarity, cluster_labels, encoder>>

vars == <<ivars, cvars, svars>>

----------------------------------------------------------------------------
(* Bounds of the model *)

MaxPool == 3        \* longest pool drawn from the candidate catalogues
MaxTiles == 52      \* longest pool of back-to-back candidates
MaxSegs == 11       \* longest shortlist handed to score_segments
MaxTranscript == 6  \* most segments of a transcript

(* Program constants *)

MinDuration == 15       \* segmentation.py:245
MaxDuration == 90       \* segmentation.py:245
MinTextLen == 20        \* segmentation.py:246
MinWordCount == 5       \* segmentation.py:247
SweetLo == 30           \* segmentation.py:255
SweetHi == 60           \* segmentation.py:255
SweetBonus == 200       \* segmentation.py:256
PaceLo == 2             \* segmentation.py:258
PaceHi == 4             \* segmentation.py:258
PaceBonus == 100        \* segmentation.py:259
ShortlistMax == 50      \* segmentation.py:269
TopicBase == 600        \* segmentation.py:91
SilenceBase == 500      \* segmentation.py:136
SpeakerBase == 700      \* segmentation.py:169
SemanticBase == 500     \* segmentation.py:216
SilenceGap == 2         \* segmentation.py:119
SilenceRadius == 30     \* segmentation.py:121
MinTopicSegs == 2       \* segmentation.py:64
MinSemanticSegs == 5    \* segmentation.py:191
MaxClusters == 10       \* segmentation.py:199
SegsPerCluster == 3     \* segmentation.py:199
BatchSize == 5          \* scoring.py:25
NeutralAi == 50         \* scoring.py:142, 151 (and 41, 201)
NoAnalysisLen == 24     \* scoring.py:143, len("No AI analysis available")
FailedPrefixLen == 19   \* scoring.py:152, len("AI scoring failed: ")
MaxRationale == 200     \* scoring.py:202
MaxTitle == 50
MaxItemText == 500          \* scoring.py:203
AiWeight == 7           \* scoring.py:42
HeurWeight == 3         \* scoring.py:42
ScoreOne == 100         \* scoring.py:201, 285: 1.0 in hundredths
FinalOne == 1000        \* scoring.py:44: 1.0 in thousandths
HeurBase == 50          \* scoring.py:219
BandSweet == 15         \* scoring.py:223
BandNear == 5           \* scoring.py:225
BandOff == 10           \* scoring.py:227
OpeningBonus == 15      \* scoring.py:237
QuestionBonus == 10     \* scoring.py:241
EmotionalStep == 2      \* scoring.py:251
EmotionalCap == 10      \* scoring.py:251
NumbersBonus == 5       \* scoring.py:255
ControversyBonus == 10  \* scoring.py:264
ActionBonus == 8        \* scoring.py:273
PersonalBonus == 5      \* scoring.py:282

----------------------------------------------------------------------------
(* min and max of two numbers *)

Min(a, b) == IF a < b THEN a ELSE b
Max(a, b) == IF a > b THEN a ELSE b

----------------------------------------------------------------------------
(* Texts *)

RECURSIVE Repeat(_, _)
Repeat(ch, n) == IF n = 0 THEN <<>> ELSE <<ch>> \o Repeat(ch, n - 1)

RECURSIVE WordsText(_, _, _)
\* n words of w characters, separated by gap blanks
WordsText(n, w, gap) ==
    IF n = 0 THEN <<>>
    ELSE IF n = 1 THEN Repeat("a", w)
    ELSE Repeat("a", w) \o Repeat(" ", gap) \o WordsText(n - 1, w, gap)

\* lead blanks, n words of w characters gap blanks apart, trail blanks
Txt(lead, n, w, gap, trail) ==
    Repeat(" ", lead) \o WordsText(n, w, gap) \o Repeat(" ", trail)

IsSpace(ch) == ch = " "

\* str.strip(): the text without its leading and trailing whitespace
Strip(t) ==
    LET nonblank == {i \in 1..Len(t) : ~IsSpace(t[i])}
    IN  IF nonblank = {} THEN <<>>
        ELSE LET lo == CHOOSE i \in nonblank : \A j \in nonblank : i <= j
                 hi == CHOOSE i \in nonblank : \A j \in nonblank : j <= i
             IN  SubSeq(t, lo, hi)

\* len(str.split()): the number of maximal runs of non-whitespace characters
SplitCount(t) ==
    Cardinality({i \in 1..Len(t) :
                    /\ ~IsSpace(t[i])
                    /\ (i = 1 \/ IsSpace(t[i - 1]))})

----------------------------------------------------------------------------
(* Candidates *)

Duration(c) == c.end - c.start

Candidate(s, e, t, strat, base) ==
    [start |-> s, end |-> e, text |-> t, strategy |-> strat,
     preliminary_score |-> base]

\* the dicts of a list as distinct objects: oid is the position in the pool
WithOids(seq) == [i \in 1..Len(seq) |-> seq[i] @@ [oid |-> i]]

\* dict.__eq__: equal keys and values, whatever the objects
SameDict(a, b) == [a EXCEPT !.oid = 0] = [b EXCEPT !.oid = 0]

\* the half-open ranges [start, end) of a and b intersect
Intersects(a, b) == a.start < b.end /\ a.end > b.start

----------------------------------------------------------------------------
(* _filter_segments: the filter pass *)

PassesFilterRawText(c) ==
    /\ MinDuration <= Duration(c)
    /\ Duration(c) <= MaxDuration
    /\ Len(c.text) > MinTextLen
    /\ SplitCount(c.text) > MinWordCount

PassesFilterExclusive(c) ==
    /\ MinDuration < Duration(c)
    /\ Duration(c) < MaxDuration
    /\ Len(Strip(c.text)) > MinTextLen
    /\ SplitCount(Strip(c.text)) > MinWordCount

\* segmentation.py:244-248
PassesFilter(c) ==
    /\ MinDuration <= Duration(c)
    /\ Duration(c) <= MaxDuration
    /\ Len(Strip(c.text)) > MinTextLen
    /\ SplitCount(Strip(c.text)) > MinWordCount

InSweetSpotExclusive(c) == SweetLo < Duration(c) /\ Duration(c) < SweetHi

\* 30 <= duration <= 60
InSweetSpot(c) == SweetLo <= Duration(c) /\ Duration(c) <= SweetHi

\* 2 <= word_count / duration <= 4, the quotient compared exactly
GoodPacing(wc, d) == PaceLo * d <= wc /\ wc <= PaceHi * d

\* x += b in IEEE-754 doubles, for x a base score of a generator or a
\* boosted one and b a boost: 0.7 + 0.1 and 0.7 + 0.2 are the doubles below
\* 0.8 and 0.9, every other sum is the double of its decimal
FloatAdd(x, b) == IF x = SpeakerBase THEN x + b - 1 ELSE x + b

\* segmentation.py:250-259: the quality indicators and the score boosts
Boosted(c) ==
    LET wc == SplitCount(Strip(c.text))
        sweet == IF InSweetSpot(c)
                 THEN FloatAdd(c.preliminary_score, SweetBonus)
                 ELSE c.preliminary_score
        paced == IF GoodPacing(wc, Duration(c))
                 THEN FloatAdd(sweet, PaceBonus)
                 ELSE sweet
    IN  [word_count |-> wc,
         char_count |-> Len(Strip(c.text)),
         words_per_second |-> <<wc, Duration(c)>>]
        @@ [c EXCEPT !.preliminary_score = paced]

RECURSIVE FilterPass(_)
\* segmentation.py:237-261: the candidates that pass, boosted, in pool order
FilterPass(segs) ==
    IF segs = <<>> THEN <<>>
    ELSE (IF PassesFilter(Head(segs)) THEN <<Boosted(Head(segs))>> ELSE <<>>)
         \o FilterPass(Tail(segs))

----------------------------------------------------------------------------
(* list.sort: stable *)

\* the pair x = <<key, element>> placed behind every pair whose key is not larger
RECURSIVE InsertPair(_, _)
InsertPair(x, sorted) ==
    IF sorted = <<>> THEN <<x>>
    ELSE IF Head(sorted)[1] <= x[1]
         THEN <<Head(sorted)>> \o InsertPair(x, Tail(sorted))
         ELSE <<x>> \o sorted

RECURSIVE SortPairs(_, _)
SortPairs(todo, sorted) ==
    IF todo = <<>> THEN sorted
    ELSE SortPairs(Tail(todo), InsertPair(Head(todo), sorted))

\* the elements of pairs, stably sorted by ascending key
StableSort(pairs) ==
    LET sorted == SortPairs(pairs, <<>>)
    IN  [i \in 1..Len(sorted) |-> sorted[i][2]]

\* segments.sort(key=lambda x: x['start'])
SortByStart(segs) ==
    StableSort([i \in 1..Len(segs) |-> <<segs[i].start, segs[i]>>])

\* filtered.sort(key=lambda x: x['preliminary_score'], reverse=True):
\* descending, equal elements in their original order
SortByScoreDesc(segs) ==
    StableSort([i \in 1..Len(segs) |-> <<0 - segs[i].preliminary_score, segs[i]>>])

----------------------------------------------------------------------------
(* _remove_overlaps: one iteration of the sweep *)

\* list.remove(x): the list without its first element equal to x
ListRemove(list, x) ==
    LET eq == {j \in 1..Len(list) : SameDict(list[j], x)}
    IN  IF eq = {} THEN list
        ELSE LET j == CHOOSE k \in eq : \A m \in eq : k <= m
             IN  SubSeq(list, 1, j - 1) \o SubSeq(list, j + 1, Len(list))

SweepOneKeepBoth(kept, segment) ==
    LET hits == {j \in 1..Len(kept) : Intersects(segment, kept[j])}
    IN  IF hits = {} THEN Append(kept, segment)
        ELSE LET j == CHOOSE k \in hits : \A m \in hits : k <= m
             IN  IF segment.preliminary_score > kept[j].preliminary_score
                 THEN Append(kept, segment)
                 ELSE kept

SweepOneReplaceLower(kept, segment) ==
    LET hits == {j \in 1..Len(kept) : Intersects(segment, kept[j])}
    IN  IF hits = {} THEN Append(kept, segment)
        ELSE LET j == CHOOSE k \in hits : \A m \in hits : k <= m
             IN  IF segment.preliminary_score < kept[j].preliminary_score
                 THEN Append(ListRemove(kept, kept[j]), segment)
                 ELSE kept

SweepOneTieReplaces(kept, segment) ==
    LET hits == {j \in 1..Len(kept) : Intersects(segment, kept[j])}
    IN  IF hits = {} THEN Append(kept, segment)
        ELSE LET j == CHOOSE k \in hits : \A m \in hits : k <= m
             IN  IF segment.preliminary_score >= kept[j].preliminary_score
                 THEN Append(ListRemove(kept, kept[j]), segment)
                 ELSE kept

\* segmentation.py:276-290: the first kept candidate that intersects the
\* segment decides (the inner loop breaks there)
SweepOne(kept, segment) ==
    LET hits == {j \in 1..Len(kept) : Intersects(segment, kept[j])}
    IN  IF hits = {} THEN Append(kept, segment)
        ELSE LET j == CHOOSE k \in hits : \A m \in hits : k <= m
             IN  IF segment.preliminary_score > kept[j].preliminary_score
                 THEN Append(ListRemove(kept, kept[j]), segment)
                 ELSE kept

----------------------------------------------------------------------------
(* _filter_segments: ranking and truncation *)

Take(list, n) == SubSeq(list, 1, IF Len(list) < n THEN Len(list) ELSE n)

TopCandidatesUnsorted(kept) == Take(kept, ShortlistMax)

\* segmentation.py:267-269
TopCandidates(kept) == Take(SortByScoreDesc(kept), ShortlistMax)

\* segmentation.py:46-58: the returned dicts
FinalSegments(list) ==
    [i \in 1..Len(list) |->
        [id |-> i - 1,
         startS |-> list[i].start,
         endS |-> list[i].end,
         text |-> list[i].text,
         duration |-> list[i].end - list[i].start,
         strategy |-> list[i].strategy,
         preliminary_score |-> list[i].preliminary_score,
         oid |-> list[i].oid]]

----------------------------------------------------------------------------
(* The four candidate generators *)

\* current_text + " " + segment['text']
Joined(a, b) == a \o <<" ">> \o b

\* segmentation.py:78-96: the loop from segment i on (1-based), change(i)
\* telling whether a window closes between segments i-1 and i
RECURSIVE WalkRuns(_, _, _, _, _, _, _, _)
WalkRuns(segs, i, change, current_start, current_text, out, strat, base) ==
    IF i > Len(segs)
    THEN [out |-> out, current_start |-> current_start,
          current_text |-> current_text]
    ELSE IF change[i]
         THEN WalkRuns(segs, i + 1, change, segs[i].start, segs[i].text,
                       Append(out, Candidate(current_start, segs[i - 1].end,
                                             current_text, strat, base)),
                       strat, base)
         ELSE WalkRuns(segs, i + 1, change, current_start,
                       Joined(current_text, segs[i].text), out, strat, base)

\* the generator if it appended the last window without looking at it
SegmentByTopicAlwaysFinal(segs, low) ==
    IF Len(segs) < MinTopicSegs THEN <<>>
    ELSE LET change == [i \in 2..Len(segs) |-> low[i - 1]]
             w == WalkRuns(segs, 2, change, segs[1].start, segs[1].text, <<>>,
                           "topic_change", TopicBase)
         IN  Append(w.out, Candidate(w.current_start, segs[Len(segs)].end,
                                     w.current_text, "topic_change", TopicBase))

\* segmentation.py:62-108
SegmentByTopic(segs, low) ==
    IF Len(segs) < MinTopicSegs THEN <<>>
    ELSE LET change == [i \in 2..Len(segs) |-> low[i - 1]]
             w == WalkRuns(segs, 2, change, segs[1].start, segs[1].text, <<>>,
                           "topic_change", TopicBase)
         IN  IF w.current_start < segs[Len(segs)].end
             THEN Append(w.out, Candidate(w.current_start, segs[Len(segs)].end,
                                          w.current_text, "topic_change",
                                          TopicBase))
             ELSE w.out

\* segmentation.py:125-128: the texts of the segments inside the window,
\* each followed by a blank
RECURSIVE WindowText(_, _, _, _)
WindowText(segs, k, lo, hi) ==
    IF k > Len(segs) THEN <<>>
    ELSE (IF segs[k].start >= lo /\ segs[k].end <= hi
          THEN segs[k].text \o <<" ">> ELSE <<>>)
         \o WindowText(segs, k + 1, lo, hi)

\* the loop if the threshold were inclusive
RECURSIVE SilenceFromInclusive(_, _)
SilenceFromInclusive(segs, i) ==
    IF i > Len(segs) - 1 THEN <<>>
    ELSE LET current_end == segs[i].end
             next_start == segs[i + 1].start
             segment_start == Max(0, current_end - SilenceRadius)
             segment_end == Min(segs[Len(segs)].end, next_start + SilenceRadius)
             segment_text == WindowText(segs, 1, segment_start, segment_end)
         IN  (IF next_start - current_end >= SilenceGap /\ Strip(segment_text) # <<>>
              THEN <<Candidate(segment_start, segment_end, Strip(segment_text),
                               "silence_boundary", SilenceBase)>>
              ELSE <<>>)
             \o SilenceFromInclusive(segs, i + 1)

\* segmentation.py:114-137: the loop from the pair (i, i+1) on
RECURSIVE SilenceFrom(_, _)
SilenceFrom(segs, i) ==
    IF i > Len(segs) - 1 THEN <<>>
    ELSE LET current_end == segs[i].end
             next_start == segs[i + 1].start
             segment_start == Max(0, current_end - SilenceRadius)
             segment_end == Min(segs[Len(segs)].end, next_start + SilenceRadius)
             segment_text == WindowText(segs, 1, segment_start, segment_end)
         IN  (IF next_start - current_end > SilenceGap /\ Strip(segment_text) # <<>>
              THEN <<Candidate(segment_start, segment_end, Strip(segment_text),
                               "silence_boundary", SilenceBase)>>
              ELSE <<>>)
             \o SilenceFrom(segs, i + 1)

\* segmentation.py:110-139
SegmentBySilence(segs) == SilenceFrom(segs, 1)

\* segment.get('speaker', 'unknown')
SpeakerOf(seg) == IF "speaker" \in DOMAIN seg THEN seg.speaker ELSE "unknown"

\* segmentation.py:155-175: the loop from segment i on, after the first
RECURSIVE SpeakerFrom(_, _, _, _, _, _)
SpeakerFrom(segs, i, current_speaker, current_start, current_text, out) ==
    IF i > Len(segs)
    THEN Append(out, Candidate(current_start, segs[Len(segs)].end, current_text,
                               "speaker_change", SpeakerBase))
    ELSE IF SpeakerOf(segs[i]) # current_speaker
         THEN SpeakerFrom(segs, i + 1, SpeakerOf(segs[i]), segs[i].start,
                          segs[i].text,
                          Append(out, Candidate(current_start, segs[i].start,
                                                current_text, "speaker_change",
                                                SpeakerBase)))
         ELSE SpeakerFrom(segs, i + 1, current_speaker, current_start,
                          Joined(current_text, segs[i].text), out)

\* the generator if it did not look for speaker labels first
SegmentBySpeakerChangeAlways(segs) ==
    SpeakerFrom(segs, 2, SpeakerOf(segs[1]), segs[1].start, segs[1].text, <<>>)

\* segmentation.py:141-187
SegmentBySpeakerChange(segs) ==
    IF ~(\E i \in 1..Len(segs) : "speaker" \in DOMAIN segs[i]) THEN <<>>
    ELSE SpeakerFrom(segs, 2, SpeakerOf(segs[1]), segs[1].start, segs[1].text,
                     <<>>)

\* segmentation.py:199
ClusterCount(n) == Min(MaxClusters, n \div SegsPerCluster)

\* the generator if it forgot the window open at the end
SegmentBySemanticsNoFinal(segs, labels) ==
    IF Len(segs) < MinSemanticSegs THEN <<>>
    ELSE LET change == [i \in 2..Len(segs) |-> labels[i] # labels[i - 1]]
         IN  WalkRuns(segs, 2, change, segs[1].start, segs[1].text, <<>>,
                      "semantic_boundary", SemanticBase).out

\* segmentation.py:189-233
SegmentBySemantics(segs, labels) ==
    IF Len(segs) < MinSemanticSegs THEN <<>>
    ELSE LET change == [i \in 2..Len(segs) |-> labels[i] # labels[i - 1]]
             w == WalkRuns(segs, 2, change, segs[1].start, segs[1].text, <<>>,
                           "semantic_boundary", SemanticBase)
         IN  Append(w.out, Candidate(w.current_start, segs[Len(segs)].end,
                                     w.current_text, "semantic_boundary",
                                     SemanticBase))

\* segmentation.py:23-40
AllSegments(segs, low, labels) ==
    SegmentByTopic(segs, low) \o SegmentBySilence(segs)
    \o SegmentBySpeakerChange(segs) \o SegmentBySemantics(segs, labels)

----------------------------------------------------------------------------
(* Inputs *)

GoodText == Txt(0, 8, 4, 1, 0)       \* 39 characters, 8 words
DenseText == Txt(0, 40, 1, 1, 0)     \* 79 characters, 40 words

Bases == {SilenceBase, TopicBase, SpeakerBase}

StrategyOf(base) ==
    IF base = TopicBase THEN "topic_change"
    ELSE IF base = SpeakerBase THEN "speaker_change"
    ELSE "silence_boundary"

\* a chain [0,20) [10,50) [30,70), and [50,70), which touches [10,50)
OverlapCands ==
    {Candidate(iv[1], iv[2], GoodText, StrategyOf(b), b) :
        iv \in {<<10, 50>>, <<30, 70>>}, b \in Bases}
    \cup {Candidate(0, 20, GoodText, StrategyOf(b), b) :
            b \in {SilenceBase, SpeakerBase}}
    \cup {Candidate(0, 20, DenseText, "speaker_change", SpeakerBase),
          Candidate(50, 70, GoodText, "topic_change", TopicBase)}

\* the boundaries of the three filter criteria
FilterCatalogue ==
    [i \in 1..7 |->
        Candidate(0, <<10, 14, 15, 30, 60, 90, 91>>[i], GoodText,
                  "silence_boundary", SilenceBase)]
    \o [i \in 1..6 |->
        Candidate(10, 50,
                  <<Txt(0, 7, 2, 1, 0),      \* 20 characters, 7 words
                    Txt(0, 11, 1, 1, 0),     \* 21 characters, 11 words
                    Txt(0, 5, 6, 1, 0),      \* 34 characters, 5 words
                    Txt(0, 6, 3, 2, 0),      \* 28 characters, 6 words
                    Txt(10, 7, 2, 1, 5),     \* 35 characters, 20 stripped
                    Txt(0, 0, 0, 0, 30)>>[i],  \* 30 blanks
                  "topic_change", TopicBase)]

\* candidates apart from each other at the edges of the two bonuses:
\* 60 s and 8 words; 20 s and 40 words (2 per second); 30 s and 60 words
\* (2 per second); 15 s and 60 words (4 per second); 20 s and 8 words
BonusPool ==
    << Candidate(0, 60, GoodText, "topic_change", TopicBase),
       Candidate(100, 120, DenseText, "speaker_change", SpeakerBase),
       Candidate(200, 230, Txt(0, 60, 1, 1, 0), "silence_boundary", SilenceBase),
       Candidate(300, 315, Txt(0, 60, 1, 1, 0), "speaker_change", SpeakerBase),
       Candidate(400, 420, GoodText, "semantic_boundary", SemanticBase) >>

\* every run of consecutive candidates of the catalogue
FilterPools ==
    {SubSeq(FilterCatalogue, i, j) :
        i \in 1..Len(FilterCatalogue), j \in 1..Len(FilterCatalogue)}

RECURSIVE SeqsUpTo(_, _)
SeqsUpTo(S, n) ==
    IF n = 0 THEN {<<>>}
    ELSE LET shorter == SeqsUpTo(S, n - 1)
         IN  shorter \cup {Append(q, x) : q \in {r \in shorter : Len(r) = n - 1},
                                          x \in S}

\* durations 10, 40, 95, 55, 30
ExamplePool ==
    [i \in 1..5 |->
        Candidate(100 * i, 100 * i + <<10, 40, 95, 55, 30>>[i], GoodText,
                  "silence_boundary", SilenceBase)]

\* n back-to-back candidates of 15 s, latest first; every p-th one comes from
\* the silence strategy, the others alternately from the other two
TiledPool(n, p) ==
    [i \in 1..n |->
        LET k == n - i
            b == IF k % p = 1 THEN SilenceBase
                 ELSE IF k % 2 = 0 THEN TopicBase ELSE SpeakerBase
        IN  Candidate(MinDuration * k, MinDuration * (k + 1), GoodText,
                      StrategyOf(b), b)]

Pools ==
    SeqsUpTo(OverlapCands, MaxPool)
    \cup FilterPools
    \cup {ExamplePool, BonusPool}
    \cup {TiledPool(n, p) : n \in (ShortlistMax - 1)..MaxTiles, p \in {3, 30}}

----------------------------------------------------------------------------
(* The two services at rest *)

\* score_segments has not been called
ScoringIdle ==
    /\ spc = "idle"
    /\ segments = <<>>
    /\ bi = 0
    /\ scored_segments = <<>>
    /\ in_flight = 0
    /\ requests = <<>>
    /\ responses = <<>>
    /\ events = <<>>
    /\ result = <<>>
    /\ soutcome = "none"

\* generate_segments has not been called
SegmentationIdle ==
    /\ pc = "idle"
    /\ pool = <<>>
    /\ filtered = <<>>
    /\ idx = 0
    /\ non_overlapping = <<>>
    /\ shortlist = <<>>
    /\ final_segments = <<>>
    /\ outcome = "none"

----------------------------------------------------------------------------
(* generate_segments from the pooled candidates on *)

Init ==
    /\ transcript = <<>>
    /\ low_similarity = <<>>
    /\ cluster_labels = <<>>
    /\ encoder = "ok"
    /\ pool \in {WithOids(p) : p \in Pools}
    /\ pc = "filter"
    /\ filtered = <<>>
    /\ idx = 0
    /\ non_overlapping = <<>>
    /\ shortlist = <<>>
    /\ final_segments = <<>>
    /\ outcome = "none"
    /\ ScoringIdle

\* segmentation.py:237-261, then 273-274
Filter ==
    /\ pc = "filter"
    /\ filtered' = SortByStart(FilterPass(pool))
    /\ idx' = 1
    /\ non_overlapping' = <<>>
    /\ pc' = "sweep"
    /\ UNCHANGED <<pool, shortlist, final_segments, outcome, svars, ivars>>

\* segmentation.py:276-290: one iteration of the outer loop
Sweep ==
    /\ pc = "sweep"
    /\ idx <= Len(filtered)
    /\ non_overlapping' = SweepOne(non_overlapping, filtered[idx])
    /\ idx' = idx + 1
    /\ UNCHANGED <<pc, pool, filtered, shortlist, final_segments, outcome, svars, ivars>>

\* segmentation.py:292, 264-269
Rank ==
    /\ pc = "sweep"
    /\ idx > Len(filtered)
    /\ shortlist' = TopCandidates(non_overlapping)
    /\ pc' = "return"
    /\ UNCHANGED <<pool, filtered, idx, non_overlapping, final_segments, outcome, svars, ivars>>

ReturnOutcomeRaiseOnEmpty(list) == IF list = <<>> THEN "raised" ELSE "returned"

\* segmentation.py:60: the list is returned, whatever its length
ReturnOutcome(list) == "returned"

\* segmentation.py:46-60
Return ==
    /\ pc = "return"
    /\ final_segments' =
          (IF ReturnOutcome(shortlist) = "returned" THEN FinalSegments(shortlist)
           ELSE <<>>)
    /\ outcome' = ReturnOutcome(shortlist)
    /\ pc' = "done"
    /\ UNCHANGED <<pool, filtered, idx, non_overlapping, shortlist, svars, ivars>>

Next == Filter \/ Sweep \/ Rank \/ Return

Spec == Init /\ [][Next]_vars

----------------------------------------------------------------------------
(* generate_segments from the transcript on *)

\* the silence after segment i: none, 2 s or 3 s, in turn from goff
GapAfter(i, goff) == <<0, 2, 3>>[((i + goff) % 3) + 1]

RECURSIVE StartOf(_, _, _)
StartOf(i, d, goff) ==
    IF i = 1 THEN 0 ELSE StartOf(i - 1, d, goff) + d + GapAfter(i - 1, goff)

\* n segments of d seconds, speakers labelled as spk says
Transcript(n, d, goff, spk, t) ==
    [i \in 1..n |->
        LET seg == [start |-> StartOf(i, d, goff),
                    end |-> StartOf(i, d, goff) + d,
                    text |-> t]
        IN  IF spk = "pairs" THEN seg @@ [speaker |-> <<"A", "A", "B">>[(i % 3) + 1]]
            ELSE IF spk = "some" /\ i % 3 = 0 THEN seg @@ [speaker |-> "A"]
            ELSE seg]

\* the transcript with its last segment cut to no length (end = start), as
\* speech recognisers emit now and then
ZeroTail(tr) ==
    IF tr = <<>> THEN tr
    ELSE [tr EXCEPT ![Len(tr)].end = tr[Len(tr)].start]

RegularTranscripts ==
    {Transcript(n, d, goff, spk, t) :
        n \in 0..MaxTranscript, d \in {4, 10, 45}, goff \in 0..2,
        spk \in {"none", "pairs", "some"},
        t \in {Txt(1, 3, 4, 1, 0), Txt(0, 1, 6, 1, 0)}}

Transcripts == RegularTranscripts \cup {ZeroTail(tr) : tr \in RegularTranscripts}

\* a similarity drop at every m-th pair
LowSimilarities(n) ==
    {[i \in 1..(IF n = 0 THEN 0 ELSE n - 1) |-> i % m = 0] : m \in {1, 2, 9}}

\* n labels among the k clusters, changing every r segments
ClusterLabels(n) ==
    IF n < MinSemanticSegs THEN {<<>>}
    ELSE {[i \in 1..n |-> (i \div r) % ClusterCount(n)] : r \in {1, 2}}

GenInit ==
    /\ transcript \in Transcripts
    /\ low_similarity \in LowSimilarities(Len(transcript))
    /\ cluster_labels \in ClusterLabels(Len(transcript))
    /\ encoder \in {"ok", "raises"}
    /\ pc = "start"
    /\ pool = <<>>
    /\ filtered = <<>>
    /\ idx = 0
    /\ non_overlapping = <<>>
    /\ shortlist = <<>>
    /\ final_segments = <<>>
    /\ outcome = "none"
    /\ ScoringIdle

NoSegmentsNever(segs) == FALSE

\* segmentation.py:17, 20: not segments
NoSegments(segs) == segs = <<>>

\* segmentation.py:20-21
RejectEmpty ==
    /\ pc = "start"
    /\ NoSegments(transcript)
    /\ outcome' = "raised"
    /\ pc' = "done"
    /\ UNCHANGED <<pool, filtered, idx, non_overlapping, shortlist,
                   final_segments, svars, ivars>>

\* segmentation.py:71, 196: _segment_by_topic and _segment_by_semantics call
\* sentence_model.encode once they have enough segments; nothing in
\* generate_segments catches what it raises
EncodeRaises(segs, enc) ==
    /\ enc = "raises"
    /\ Len(segs) >= MinTopicSegs \/ Len(segs) >= MinSemanticSegs

SegmentsAfterGeneratorsSetDefault(segs) ==
    IF \E i \in 1..Len(segs) : "speaker" \in DOMAIN segs[i]
    THEN [i \in 1..Len(segs) |->
            IF "speaker" \in DOMAIN segs[i] THEN segs[i]
            ELSE segs[i] @@ [speaker |-> "unknown"]]
    ELSE segs

\* segmentation.py:24-33, 62-233: what the four generators leave of the
\* segments list they are handed: they index it, read 'start', 'end' and
\* 'text', call 'speaker' in seg and seg.get('speaker', 'unknown'), and
\* build every candidate as a new dict, so the filter's item assignments
\* (250-259) and the in-place sorts (267, 273) act on other objects
SegmentsAfterGenerators(segs) == segs

\* segmentation.py:23-40: the four generators run and are pooled
Generate ==
    /\ pc = "start"
    /\ ~NoSegments(transcript)
    /\ ~EncodeRaises(transcript, encoder)
    /\ pool' = WithOids(AllSegments(transcript, low_similarity, cluster_labels))
    /\ transcript' = SegmentsAfterGenerators(transcript)
    /\ pc' = "filter"
    /\ UNCHANGED <<filtered, idx, non_overlapping, shortlist, final_segments,
                   outcome, svars, low_similarity, cluster_labels, encoder>>

\* segmentation.py:24, 71 (33, 196): the exception of encode leaves
\* generate_segments
GenerateFails ==
    /\ pc = "start"
    /\ ~NoSegments(transcript)
    /\ EncodeRaises(transcript, encoder)
    /\ outcome' = "raised"
    /\ pc' = "done"
    /\ UNCHANGED <<pool, filtered, idx, non_overlapping, shortlist,
                   final_segments, svars, ivars>>

GenNext == RejectEmpty \/ Generate \/ GenerateFails \/ Filter \/ Sweep \/ Rank \/ Return

GenSpec == GenInit /\ [][GenNext]_vars

----------------------------------------------------------------------------
(* score_segments: the heuristic scorer *)

\* The text of a segment handed to score_segments is given by its length
\* and by what the substring tests of the scorer find in it.
SegText(n, opening, question, emotional, numbers, controversy, action, personal) ==
    [len |-> n, opening |-> opening, question |-> question,
     emotional |-> emotional, numbers |-> numbers,
     controversy |-> controversy, action |-> action, personal |-> personal]

DurationBandExclusive(d) ==
    IF 30 < d /\ d < 60 THEN BandSweet
    ELSE IF (15 < d /\ d <= 30) \/ (60 <= d /\ d < 90) THEN BandNear
    ELSE 0 - BandOff

\* scoring.py:222-227
DurationBand(d) ==
    IF 30 <= d /\ d <= 60 THEN BandSweet
    ELSE IF (15 <= d /\ d <= 30) \/ (60 <= d /\ d <= 90) THEN BandNear
    ELSE 0 - BandOff

\* scoring.py:229-282: the content bonuses
ContentBonus(t) ==
    (IF t.opening THEN OpeningBonus ELSE 0)
    + (IF t.question THEN QuestionBonus ELSE 0)
    + Min(EmotionalCap, t.emotional * EmotionalStep)
    + (IF t.numbers THEN NumbersBonus ELSE 0)
    + (IF t.controversy THEN ControversyBonus ELSE 0)
    + (IF t.action THEN ActionBonus ELSE 0)
    + (IF t.personal THEN PersonalBonus ELSE 0)

\* the scorer if it started from the AI score the dict already carries
CalculateHeuristicScoreFromAi(segment) ==
    Max(0, Min(ScoreOne,
               (IF "ai_score" \in DOMAIN segment THEN segment.ai_score ELSE HeurBase)
               + DurationBand(segment.endS - segment.startS)
               + ContentBonus(segment.text)))

\* scoring.py:214-285
CalculateHeuristicScore(segment) ==
    Max(0, Min(ScoreOne,
               HeurBase + DurationBand(segment.endS - segment.startS)
               + ContentBonus(segment.text)))

----------------------------------------------------------------------------
(* score_segments: the AI scorer *)

\* What the AI service does with a request:
\*   "raise"    the call raises (service error, timeout)
\*   "prose"    it answers with text that holds no [...] payload
\*   "badjson"  it answers with a [...] payload that does not parse into
\*              dicts with string fields
\*   "array"    it answers with a well-formed array, entries, written
\*              between the free text before and the free text after; a
\*              free text is its words "w" and square brackets, in order
AiEntry(id, has_score, score, rationale, title) ==
    [id |-> id, has_score |-> has_score, score |-> score,
     rationale |-> rationale, suggested_title |-> title]

CleanEntryUnclamped(e) ==
    [ai_score |-> IF e.has_score THEN e.score ELSE NeutralAi,
     ai_rationale |-> Min(e.rationale, MaxRationale),
     suggested_title |-> Min(e.suggested_title, MaxTitle)]

CleanEntryUntruncated(e) ==
    [ai_score |-> Max(0, Min(ScoreOne, IF e.has_score THEN e.score ELSE NeutralAi)),
     ai_rationale |-> e.rationale,
     suggested_title |-> e.suggested_title]

\* scoring.py:200-204; a string is given by its length
CleanEntry(e) ==
    [ai_score |-> Max(0, Min(ScoreOne, IF e.has_score THEN e.score ELSE NeutralAi)),
     ai_rationale |-> Min(e.rationale, MaxRationale),
     suggested_title |-> Min(e.suggested_title, MaxTitle)]

\* some token of the text is the bracket b
HasBracket(text, b) == \E x \in 1..Len(text) : text[x] = b

\* scoring.py:192-195: re.search(r'\[.*\]', ..., re.DOTALL) matches from the
\* first "[" of the response to its last "]", and json.loads takes the
\* match only if it is the array and nothing else
MatchIsArray(r) == ~HasBracket(r.before, "[") /\ ~HasBracket(r.after, "]")

\* scoring.py:188-212; called with the content of a response that arrived
ParseAiResponse(r) ==
    IF r.kind = "array" /\ MatchIsArray(r)
    THEN [k \in 1..Len(r.entries) |-> CleanEntry(r.entries[k])]
    ELSE <<>>

\* dict.update / item assignment: the keys of upd set in the dict d
Update(d, upd) == upd @@ d

ScoreBatchNoFallback(segs, first, size, r) ==
    IF r.kind = "raise" THEN segs
    ELSE LET ai_scores == ParseAiResponse(r)
         IN  [p \in 1..Len(segs) |->
                IF p <= first \/ p > first + size THEN segs[p]
                ELSE IF p - first <= Len(ai_scores)
                     THEN Update(segs[p], ai_scores[p - first])
                     ELSE segs[p]]

ScoreBatchFallbackAll(segs, first, size, r) ==
    IF r.kind = "raise"
    THEN [p \in 1..Len(segs) |->
            Update(segs[p], [ai_score |-> NeutralAi,
                             ai_rationale |-> FailedPrefixLen + r.message])]
    ELSE LET ai_scores == ParseAiResponse(r)
         IN  [p \in 1..Len(segs) |->
                IF p <= first \/ p > first + size THEN segs[p]
                ELSE IF p - first <= Len(ai_scores)
                     THEN Update(segs[p], ai_scores[p - first])
                     ELSE Update(segs[p], [ai_score |-> NeutralAi,
                                           ai_rationale |-> NoAnalysisLen])]

ScoreBatchRawUpdate(segs, first, size, r) ==
    IF r.kind = "raise"
    THEN [p \in 1..Len(segs) |->
            IF p <= first \/ p > first + size THEN segs[p]
            ELSE Update(segs[p], [ai_score |-> NeutralAi,
                                  ai_rationale |-> FailedPrefixLen + r.message])]
    ELSE LET ai_scores == ParseAiResponse(r)
         IN  [p \in 1..Len(segs) |->
                IF p <= first \/ p > first + size THEN segs[p]
                ELSE IF p - first <= Len(ai_scores)
                     THEN Update(segs[p], [id |-> r.entries[p - first].id]
                                          @@ ai_scores[p - first])
                     ELSE Update(segs[p], [ai_score |-> NeutralAi,
                                           ai_rationale |-> NoAnalysisLen])]

\* scoring.py:108-154: the dicts after the batch segments[first:first+size]
\* was scored with the service doing r; position p of the list is item
\* p - first - 1 of the batch
ScoreBatch(segs, first, size, r) ==
    IF r.kind = "raise"
    THEN [p \in 1..Len(segs) |->
            IF p <= first \/ p > first + size THEN segs[p]
            ELSE Update(segs[p], [ai_score |-> NeutralAi,
                                  ai_rationale |-> FailedPrefixLen + r.message])]
    ELSE LET ai_scores == ParseAiResponse(r)
         IN  [p \in 1..Len(segs) |->
                IF p <= first \/ p > first + size THEN segs[p]
                ELSE IF p - first <= Len(ai_scores)
                     THEN Update(segs[p], ai_scores[p - first])
                     ELSE Update(segs[p], [ai_score |-> NeutralAi,
                                           ai_rationale |-> NoAnalysisLen])]

\* segment.get('ai_score', 0.5)
GetAiScore(segment) ==
    IF "ai_score" \in DOMAIN segment THEN segment.ai_score ELSE NeutralAi

BlendedWeightsSwapped(segment) ==
    LET heuristic_score == CalculateHeuristicScore(segment)
        final_score == GetAiScore(segment) * HeurWeight + heuristic_score * AiWeight
    IN  Update(segment, [score |-> Min(FinalOne, Max(0, final_score)),
                         heuristic_score |-> heuristic_score,
                         final_score |-> final_score])

\* scoring.py:38-46
Blended(segment) ==
    LET heuristic_score == CalculateHeuristicScore(segment)
        final_score == GetAiScore(segment) * AiWeight + heuristic_score * HeurWeight
    IN  Update(segment, [score |-> Min(FinalOne, Max(0, final_score)),
                         heuristic_score |-> heuristic_score,
                         final_score |-> final_score])

\* the order list.sort(reverse=True) would give if it reversed an ascending
\* stable sort
SortByFinalDescReversed(list) ==
    LET asc == StableSort([i \in 1..Len(list) |-> <<list[i].score, list[i]>>])
    IN  [i \in 1..Len(asc) |-> asc[Len(asc) + 1 - i]]

\* scoring.py:49: scored_segments.sort(key=lambda x: x['score'], reverse=True)
SortByFinalDesc(list) ==
    StableSort([i \in 1..Len(list) |-> <<0 - list[i].score, list[i]>>])

NextAfterBatchNoDelay(i) == [at |-> "loop", i |-> i + BatchSize]

\* scoring.py:31-34, 28: after a batch the loop sleeps, then goes on
NextAfterBatch(i) == [at |-> "sleep", i |-> i]

----------------------------------------------------------------------------
(* Inputs of score_segments *)

SegCatalogue ==
    << [d |-> 45, text |-> SegText(600, TRUE, TRUE, 5, TRUE, TRUE, TRUE, TRUE)],
       [d |-> 10, text |-> SegText(30, FALSE, FALSE, 0, FALSE, FALSE, FALSE, FALSE)],
       [d |-> 30, text |-> SegText(120, FALSE, TRUE, 0, FALSE, FALSE, FALSE, FALSE)],
       [d |-> 15, text |-> SegText(500, FALSE, FALSE, 1, FALSE, FALSE, TRUE, FALSE)],
       [d |-> 60, text |-> SegText(501, FALSE, FALSE, 2, FALSE, FALSE, FALSE, TRUE)],
       [d |-> 90, text |-> SegText(80, TRUE, FALSE, 13, TRUE, FALSE, FALSE, FALSE)],
       [d |-> 100, text |-> SegText(45, FALSE, FALSE, 0, FALSE, TRUE, FALSE, FALSE)] >>

\* n segments taken round the catalogue from position off + 1
Shortlist(n, off) ==
    [i \in 1..n |->
        LET c == SegCatalogue[((i + off - 1) % Len(SegCatalogue)) + 1]
        IN  [id |-> i, startS |-> 100 * i, endS |-> 100 * i + c.d,
             text |-> c.text]]

RawScores == <<37, 900, 0 - 250, 100, 0, 64>>
RawRationales == <<40, 0, 250, 200>>
RawTitles == <<10, 80, 50, 0>>

\* an array of count entries, their values taken round the lists from rot
ArrayResponse(count, rot) ==
    [kind |-> "array", before |-> <<>>, after |-> <<>>,
     entries |-> [k \in 1..count |->
        AiEntry(k - 1, (k + rot) % 5 # 0,
                RawScores[((k + rot) % Len(RawScores)) + 1],
                RawRationales[((k + rot) % Len(RawRationales)) + 1],
                RawTitles[((k + rot) % Len(RawTitles)) + 1])]]

\* the response with free text around the array
InProse(r, before, after) == [r EXCEPT !.before = before, !.after = after]

\* the response with the entries of the array in the opposite order
Reversed(r) ==
    [r EXCEPT !.entries = [k \in 1..Len(r.entries) |->
                              r.entries[Len(r.entries) + 1 - k]]]

\* free texts before and after the array: plain words, an aside in square
\* brackets before or after, stray brackets that enclose nothing
Surroundings ==
    { <<<<"w">>, <<"w", "w">>>>,
      <<<<"w", "[", "w", "]">>, <<>>>>,
      <<<<>>, <<"w", "[", "w", "]">>>>,
      <<<<"w", "]">>, <<"[", "w">>>> }

\* what the service may do with a batch of size items
Responses(size) ==
    {[kind |-> "raise", message |-> m] : m \in {0, 30}}
    \cup {[kind |-> "prose"], [kind |-> "badjson"]}
    \cup {ArrayResponse(c, rot) : c \in {size - 1, size, size + 1}, rot \in {0, 3}}
    \cup {InProse(ArrayResponse(size, 0), sur[1], sur[2]) : sur \in Surroundings}
    \cup {Reversed(ArrayResponse(size, 3))}

----------------------------------------------------------------------------
(* score_segments *)

\* the transcript that comes with the shortlist in a scoring request
ContextTranscript == Transcript(3, 10, 1, "some", Txt(0, 2, 3, 1, 0))

\* score_segments is called with a shortlist and the transcripts of trs
ScoreInitWith(trs) ==
    /\ transcript \in trs
    /\ low_similarity = <<>>
    /\ cluster_labels = <<>>
    /\ encoder = "ok"
    /\ SegmentationIdle
    /\ spc = "start"
    /\ segments \in {Shortlist(n, off) : n \in 0..MaxSegs, off \in {0, 4}}
    /\ bi = 0
    /\ scored_segments = <<>>
    /\ in_flight = 0
    /\ requests = <<>>
    /\ responses = <<>>
    /\ events = <<>>
    /\ result = <<>>
    /\ soutcome = "none"

ScoreInit == ScoreInitWith({<<>>})

\* scoring.py:18-19
ReturnEmpty ==
    /\ spc = "start"
    /\ segments = <<>>
    /\ result' = <<>>
    /\ soutcome' = "returned"
    /\ spc' = "done"
    /\ UNCHANGED <<ivars, cvars, segments, bi, scored_segments, in_flight, requests,
                   responses, events>>

\* scoring.py:53-69: what _extract_video_context leaves of the segments
\* list of the transcript: it reads seg['text'] of each segment into a new
\* string and returns a new dict
SegmentsAfterContext(segs) == segs

\* scoring.py:21-26
Begin ==
    /\ spc = "start"
    /\ segments # <<>>
    /\ transcript' = SegmentsAfterContext(transcript)
    /\ bi' = 0
    /\ scored_segments' = <<>>
    /\ spc' = "loop"
    /\ UNCHANGED <<low_similarity, cluster_labels, encoder, cvars, segments,
                   in_flight, requests, responses, events, result, soutcome>>

\* scoring.py:112-118: the items sent for the batch segments[first:first+size];
\* text[:500] is given by its length
ItemsForAi(segs, first, size) ==
    LET batch == SubSeq(segs, first + 1, Min(first + size, Len(segs)))
    IN  [k \in 1..Len(batch) |->
            [id |-> k - 1,
             text |-> Min(batch[k].text.len, MaxItemText),
             duration |-> batch[k].endS - batch[k].startS]]

BatchLenFull(first) == BatchSize

\* scoring.py:29: len(segments[i:i + batch_size])
BatchLen(first) == Min(BatchSize, Len(segments) - first)

\* scoring.py:28-30, 112-132: the next batch is sent to the AI service
Submit ==
    /\ spc = "loop"
    /\ bi < Len(segments)
    /\ requests' = Append(requests,
                          [first |-> bi, size |-> BatchLen(bi),
                           items |-> ItemsForAi(segments, bi, BatchLen(bi))])
    /\ in_flight' = in_flight + 1
    /\ events' = Append(events, "submit")
    /\ spc' = "inflight"
    /\ UNCHANGED <<ivars, cvars, segments, bi, scored_segments, responses, result,
                   soutcome>>

\* scoring.py:124-154, 31: the service answers or fails, _score_batch
\* scores the batch and returns it
Respond ==
    /\ spc = "inflight"
    /\ \E r \in Responses(BatchLen(bi)) :
          /\ segments' = ScoreBatch(segments, bi, BatchLen(bi), r)
          /\ responses' = Append(responses, r)
    /\ scored_segments' =
          scored_segments \o [k \in 1..BatchLen(bi) |-> bi + k]
    /\ in_flight' = in_flight - 1
    /\ events' = Append(events, "return")
    /\ spc' = NextAfterBatch(bi).at
    /\ bi' = NextAfterBatch(bi).i
    /\ UNCHANGED <<ivars, cvars, requests, result, soutcome>>

\* scoring.py:34, 28: the delay elapses and the loop goes on
Sleep ==
    /\ spc = "sleep"
    /\ events' = Append(events, "sleep")
    /\ bi' = bi + BatchSize
    /\ spc' = "loop"
    /\ UNCHANGED <<ivars, cvars, segments, scored_segments, in_flight, requests,
                   responses, result, soutcome>>

CancelPointsEveryAwait == {"inflight", "sleep"}

\* Where a cancellation of the task that runs score_segments is delivered:
\* at an await that suspends.  _score_batch holds no await (the OpenAI
\* client of scoring.py:12, 124 is the blocking one), so awaiting it at
\* line 30 never yields; the only suspension is asyncio.sleep at line 34.
CancelPoints == {"sleep"}

\* scoring.py:34: CancelledError is raised in the sleep and leaves
\* score_segments
Cancel ==
    /\ spc \in CancelPoints
    /\ spc' = "cancelled"
    /\ soutcome' = "cancelled"
    /\ UNCHANGED <<ivars, cvars, segments, bi, scored_segments, in_flight,
                   requests, responses, events, result>>

\* scoring.py:36-51
Blend ==
    /\ spc = "loop"
    /\ bi >= Len(segments)
    /\ segments' = [p \in 1..Len(segments) |->
                      IF \E k \in 1..Len(scored_segments) : scored_segments[k] = p
                      THEN Blended(segments[p]) ELSE segments[p]]
    /\ result' = SortByFinalDesc([k \in 1..Len(scored_segments) |->
                                    Blended(segments[scored_segments[k]])])
    /\ soutcome' = "returned"
    /\ spc' = "done"
    /\ UNCHANGED <<ivars, cvars, bi, scored_segments, in_flight, requests, responses,
                   events>>

ScoreNext == ReturnEmpty \/ Begin \/ Submit \/ Respond \/ Sleep \/ Cancel \/ Blend

ScoreSpec == ScoreInit /\ [][ScoreNext]_vars

----------------------------------------------------------------------------
(* One call of either service, with its transcript *)

CallInit == GenInit \/ ScoreInitWith({ContextTranscript})

CallNext ==
    \/ RejectEmpty \/ Generate \/ GenerateFails \/ Filter \/ Sweep \/ Rank
    \/ Return
    \/ ReturnEmpty \/ Begin \/ Submit \/ Respond \/ Sleep \/ Cancel \/ Blend

CallSpec == CallInit /\ [][CallNext]_vars

----------------------------------------------------------------------------
(* Properties of the consolidator *)

Elems(list) == {list[i] : i \in 1..Len(list)}

SweepFinished == pc \in {"return", "done"}

\* the overlap cluster of c: the filtered candidates connected to c by a
\* chain of pairwise intersecting ranges
RECURSIVE Grow(_)
Grow(S) ==
    LET more == S \cup {x \in Elems(filtered) : \E y \in S :
                            x.start < y.end /\ y.start < x.end}
    IN  IF more = S THEN S ELSE Grow(more)

ClusterOf(c) == Grow({c})

Survivors(cluster) == cluster \cap Elems(non_overlapping)

BestScore(cluster) ==
    CHOOSE m \in {x.preliminary_score : x \in cluster} :
        \A x \in cluster : x.preliminary_score <= m

\* the position of the candidate in the ascending-start order of the sweep
SweepPos(c) == CHOOSE i \in 1..Len(filtered) : filtered[i] = c

\* C1: no two candidates of the shortlist the consolidator returns (and of
\* the list generate_segments builds from it) have intersecting half-open
\* ranges; the kept set of the sweep never holds two such candidates either.
C1_ShortlistDisjoint ==
    /\ \A i, j \in 1..Len(non_overlapping) :
          i # j => ~(/\ non_overlapping[i].start < non_overlapping[j].end
                     /\ non_overlapping[j].start < non_overlapping[i].end)
    /\ \A i, j \in 1..Len(shortlist) :
          i # j => ~(/\ shortlist[i].start < shortlist[j].end
                     /\ shortlist[j].start < shortlist[i].end)
    /\ \A i, j \in 1..Len(final_segments) :
          i # j => ~(/\ final_segments[i].startS < final_segments[j].endS
                     /\ final_segments[j].startS < final_segments[i].endS)

\* C1 witness: a pool with intersecting filtered candidates was consolidated
\* into a list of two or more candidates
C1_Witness ==
    /\ pc = "done"
    /\ Len(final_segments) >= 2
    /\ \E a, b \in Elems(filtered) : a # b /\ Intersects(a, b)

\* C2 as stated: every overlap cluster has exactly one survivor, and it has
\* the highest preliminaryScore of its cluster, the earlier start on a tie.
C2_ExactlyOneSurvivorPerCluster ==
    SweepFinished =>
        \A c \in Elems(filtered) :
            LET cluster == ClusterOf(c)
            IN  /\ Cardinality(Survivors(cluster)) = 1
                /\ \A s \in Survivors(cluster) : \A x \in cluster :
                      \/ x.preliminary_score < s.preliminary_score
                      \/ /\ x.preliminary_score = s.preliminary_score
                         /\ s.start <= x.start

\* C2 amended: every overlap cluster has at least one survivor, and among
\* its survivors is the candidate that comes first in sweep order (earliest
\* start, earliest in the pool on equal starts) among those with the highest
\* preliminaryScore of the cluster.
C2_ClusterBestSurvives ==
    SweepFinished =>
        \A c \in Elems(filtered) :
            LET cluster == ClusterOf(c)
                best == {x \in cluster : x.preliminary_score = BestScore(cluster)}
            IN  /\ Survivors(cluster) # {}
                /\ \E s \in Survivors(cluster) \cap best :
                      \A x \in best : SweepPos(s) <= SweepPos(x)

\* C2 witness: a chain-shaped cluster of three candidates, two of which
\* survive, and one of them is beaten on a tie by an equal-scoring survivor
C2_Witness ==
    /\ SweepFinished
    /\ \E c \in Elems(filtered) :
          /\ Cardinality(ClusterOf(c)) = 3
          /\ Cardinality(Survivors(ClusterOf(c))) = 2
          /\ \E x \in ClusterOf(c) \ Survivors(ClusterOf(c)) :
                x.preliminary_score = BestScore(ClusterOf(c))

\* the characters of t between its first and its last non-blank character
TrimmedLength(t) ==
    LET lead == Cardinality({i \in 1..Len(t) : \A j \in 1..i : t[j] = " "})
        trail == Cardinality({i \in 1..Len(t) : \A j \in i..Len(t) : t[j] = " "})
    IN  IF lead = Len(t) THEN 0 ELSE Len(t) - lead - trail

\* the whitespace-separated words of t, counted at their last character
WordsIn(t) ==
    Cardinality({i \in 1..Len(t) :
                    t[i] # " " /\ (i = Len(t) \/ t[i + 1] = " ")})

\* C3: a pooled candidate survives the filter pass iff 15 <= end - start <= 90,
\* its trimmed text has more than 20 characters and it has more than 5
\* whitespace-separated words; every returned candidate satisfies all three.
C3_FilterIff ==
    /\ pc # "filter" =>
          \A i \in 1..Len(pool) :
              (\E j \in 1..Len(filtered) : filtered[j].oid = i)
              <=> /\ 15 <= pool[i].end - pool[i].start
                  /\ pool[i].end - pool[i].start <= 90
                  /\ TrimmedLength(pool[i].text) > 20
                  /\ WordsIn(pool[i].text) > 5
    /\ \A i \in 1..Len(final_segments) :
          /\ 15 <= final_segments[i].endS - final_segments[i].startS
          /\ final_segments[i].endS - final_segments[i].startS <= 90
          /\ TrimmedLength(final_segments[i].text) > 20
          /\ WordsIn(final_segments[i].text) > 5

\* C3 witness: of the durations 10, 40, 95, 55, 30 only 40, 55 and 30 survive
C3_Witness ==
    /\ pc = "done"
    /\ Len(pool) = 5
    /\ [i \in 1..5 |-> pool[i].end - pool[i].start] = <<10, 40, 95, 55, 30>>
    /\ {filtered[j].oid : j \in 1..Len(filtered)} = {2, 4, 5}
    /\ {final_segments[j].oid : j \in 1..Len(final_segments)} = {2, 4, 5}

\* C4: in one step of the sweep, a candidate that intersects no kept
\* candidate is kept; when it intersects a kept candidate, the one with the
\* strictly higher preliminaryScore is retained and the other discarded, and
\* on equal scores the already-kept candidate is retained; the kept
\* candidates it does not intersect stay.
C4_SweepDecision ==
    [][(pc = "sweep" /\ idx' = idx + 1) =>
        LET seg == filtered[idx]
            kept == Elems(non_overlapping)
            after == Elems(non_overlapping')
            hits == {k \in kept : seg.start < k.end /\ k.start < seg.end}
        IN  /\ hits = {} => seg \in after
            /\ \A k \in hits :
                  IF seg.preliminary_score > k.preliminary_score
                  THEN seg \in after /\ k \notin after
                  ELSE k \in after /\ seg \notin after
            /\ \A k \in kept \ hits : k \in after
            /\ after \subseteq kept \cup {seg}]_vars

\* C4 witness: A = [10,50] and B = [30,70] with a higher score than A
\* resolve to B alone
C4_Witness ==
    /\ pc = "done"
    /\ Len(filtered) = 2
    /\ filtered[1].start = 10 /\ filtered[1].end = 50
    /\ filtered[2].start = 30 /\ filtered[2].end = 70
    /\ filtered[1].preliminary_score < filtered[2].preliminary_score
    /\ non_overlapping = <<filtered[2]>>
    /\ Len(final_segments) = 1
    /\ final_segments[1].oid = filtered[2].oid

\* C5: the shortlist has at most 50 candidates, is ordered by non-increasing
\* preliminaryScore, and no survivor of overlap resolution that it leaves
\* out has a strictly higher preliminaryScore than one it returns.
C5_TopFifty ==
    SweepFinished =>
        /\ Len(shortlist) <= 50
        /\ \A i \in 1..Len(shortlist) - 1 :
              shortlist[i].preliminary_score >= shortlist[i + 1].preliminary_score
        /\ Len(shortlist) = (IF Len(non_overlapping) > 50 THEN 50
                             ELSE Len(non_overlapping))
        /\ Elems(shortlist) \subseteq Elems(non_overlapping)
        /\ \A d \in Elems(non_overlapping) \ Elems(shortlist) :
              \A r \in Elems(shortlist) :
                  d.preliminary_score <= r.preliminary_score
        /\ pc = "done" =>
              /\ Len(final_segments) = Len(shortlist)
              /\ \A i \in 1..Len(shortlist) :
                    final_segments[i].preliminary_score
                        = shortlist[i].preliminary_score

\* C5 witness: more than 50 candidates survive overlap resolution, 50 are
\* returned, and a survivor with a lower score than a returned one is dropped
C5_Witness ==
    /\ pc = "done"
    /\ Len(non_overlapping) > 50
    /\ Len(final_segments) = 50
    /\ \E d \in Elems(non_overlapping) \ Elems(shortlist) :
          d.preliminary_score < shortlist[50].preliminary_score

\* the preliminary score of a pooled candidate after the bonuses: 0.2
\* added if its duration is in [30,60], then 0.1 added if its words per
\* second, word count / duration, are in [2,4]; the sums are those of
\* doubles
Adjusted(c) ==
    LET d == c.end - c.start
        wc == WordsIn(c.text)
        sweet == IF 30 <= d /\ d <= 60 THEN FloatAdd(c.preliminary_score, 200)
                 ELSE c.preliminary_score
    IN  IF 2 * d <= wc /\ wc <= 4 * d THEN FloatAdd(sweet, 100) ELSE sweet

\* every candidate of the list carries the adjusted score of the pooled
\* candidate it is
CarryAdjusted(list) ==
    \A i \in 1..Len(list) : list[i].preliminary_score = Adjusted(pool[list[i].oid])

\* C24: every candidate that passes the filter has 0.2 added to its
\* preliminaryScore iff its duration is in [30,60] and 0.1 iff its words
\* per second are in [2,4], each once; the candidates compared in the
\* overlap sweep and ordered for the top 50 carry these adjusted scores, and
\* the shortlist is ordered by them.
C24_BonusesApplied ==
    /\ CarryAdjusted(filtered)
    /\ CarryAdjusted(non_overlapping)
    /\ CarryAdjusted(shortlist)
    /\ CarryAdjusted(final_segments)
    /\ \A i \in 1..Len(shortlist) - 1 :
          Adjusted(pool[shortlist[i].oid]) >= Adjusted(pool[shortlist[i + 1].oid])

\* C24 witness: the call returned a candidate with both bonuses, one of
\* exactly 30 or 60 seconds with the duration bonus, one with the pacing
\* bonus, and one without any
C24_Witness ==
    /\ pc = "done"
    /\ \E i \in 1..Len(final_segments) :
          final_segments[i].preliminary_score
              = FloatAdd(FloatAdd(pool[final_segments[i].oid].preliminary_score,
                                  200), 100)
    /\ \E i \in 1..Len(final_segments) :
          /\ final_segments[i].duration \in {30, 60}
          /\ final_segments[i].preliminary_score
                > pool[final_segments[i].oid].preliminary_score
    /\ \E i \in 1..Len(final_segments) :
          LET c == pool[final_segments[i].oid]
          IN  /\ 2 * (c.end - c.start) <= WordsIn(c.text)
              /\ WordsIn(c.text) <= 4 * (c.end - c.start)
    /\ \E i \in 1..Len(final_segments) :
          final_segments[i].preliminary_score
              = pool[final_segments[i].oid].preliminary_score

\* the ranges [start, end) of the two candidates intersect
Conflict(a, b) == a.start < b.end /\ b.start < a.end

\* the filtered candidates the sweep has discarded for good
Discarded == Elems(filtered) \ Elems(non_overlapping)

\* C27 as stated: every candidate discarded by overlap resolution
\* intersects a candidate of the final kept set whose preliminaryScore is at
\* least as high.
C27_DiscardedConflictsWithSurvivor ==
    SweepFinished =>
        \A c \in Discarded :
            \E k \in Elems(non_overlapping) :
                Conflict(c, k) /\ k.preliminary_score >= c.preliminary_score

\* C27 amended: a candidate is discarded only against a candidate that is
\* in the kept set right after the step, intersects it and has a
\* preliminaryScore at least as high (strictly higher when the discarded one
\* had been kept); that candidate may be evicted later, so the discarded one
\* need not intersect any final survivor.
C27_DiscardedAgainstKept ==
    [][ (pc = "sweep" /\ idx <= Len(filtered) /\ idx' = idx + 1) =>
          LET c == filtered[idx]
              before == Elems(non_overlapping)
              after == Elems(non_overlapping')
          IN  /\ c \notin after =>
                    \E k \in after :
                        Conflict(c, k) /\ k.preliminary_score >= c.preliminary_score
              /\ \A e \in before \ after :
                    /\ c \in after
                    /\ Conflict(c, e)
                    /\ c.preliminary_score > e.preliminary_score ]_vars

\* C27 witness: the sweep has ended and a discarded candidate intersects
\* no survivor: the candidate that evicted it was evicted in its turn
C27_Witness ==
    /\ SweepFinished
    /\ \E c \in Discarded :
          \A k \in Elems(non_overlapping) : ~Conflict(c, k)

\* C28: when a candidate passes the filter, one with the highest adjusted
\* preliminaryScore of the filtered pool survives overlap resolution: the
\* shortlist is not empty and its first element has that score.
C28_BestSurvives ==
    (SweepFinished /\ filtered # <<>>) =>
        /\ shortlist # <<>>
        /\ \A c \in Elems(filtered) :
              c.preliminary_score <= shortlist[1].preliminary_score
        /\ \E k \in Elems(non_overlapping) :
              k.preliminary_score = shortlist[1].preliminary_score
        /\ pc = "done" =>
              /\ final_segments # <<>>
              /\ final_segments[1].preliminary_score
                    = shortlist[1].preliminary_score

\* C28 witness: the candidate with the highest score came late in the
\* sweep, intersected a kept one and evicted it, and candidates were
\* discarded
C28_Witness ==
    /\ pc = "done"
    /\ Discarded # {}
    /\ Len(non_overlapping) >= 2
    /\ \E i \in 2..Len(filtered) :
          /\ filtered[i].oid = shortlist[1].oid
          /\ \E k \in 1..(i - 1) :
                /\ Conflict(filtered[k], filtered[i])
                /\ filtered[k].preliminary_score < filtered[i].preliminary_score

----------------------------------------------------------------------------
(* Properties of the scoring engine *)

\* the positions in segments of the items of the j-th submitted batch
BatchItems(j) == (requests[j].first + 1)..(requests[j].first + requests[j].size)

\* the batches the service has answered or failed
Answered == 1..Len(responses)

\* the response holds an array that the parser finds: no "[" comes before
\* the array and no "]" after it
ArrayFound(j) ==
    /\ responses[j].kind = "array"
    /\ \A x \in 1..Len(responses[j].before) : responses[j].before[x] # "["
    /\ \A x \in 1..Len(responses[j].after) : responses[j].after[x] # "]"

BatchFailed(j) == ~ArrayFound(j)

\* the raw entry the service returned at the place of position p, if any
HasEntry(j, p) ==
    /\ ArrayFound(j)
    /\ p - requests[j].first <= Len(responses[j].entries)

EntryFor(j, p) == responses[j].entries[p - requests[j].first]

\* C6: the final score of every returned segment lies in [0,1], in the field
\* score and in the field final_score, whatever score the AI service
\* returned and whatever the heuristic bonuses add up to.
C6_FinalScoreInUnitRange ==
    /\ \A i \in 1..Len(result) :
          /\ 0 <= result[i].score /\ result[i].score <= 1000
          /\ 0 <= result[i].final_score /\ result[i].final_score <= 1000
    /\ \A p \in 1..Len(segments) :
          "final_score" \in DOMAIN segments[p] =>
              /\ 0 <= segments[p].score /\ segments[p].score <= 1000
              /\ 0 <= segments[p].final_score /\ segments[p].final_score <= 1000

\* C6 witness: the service returned 9.0 for a segment whose bonuses add up
\* to more than 1.0 and -2.5 for another one, and both were returned
C6_Witness ==
    /\ spc = "done"
    /\ \E j \in Answered : \E p \in BatchItems(j) :
          /\ HasEntry(j, p) /\ EntryFor(j, p).has_score
          /\ EntryFor(j, p).score > 100
          /\ 50 + DurationBand(segments[p].endS - segments[p].startS)
                + ContentBonus(segments[p].text) > 100
          /\ \E i \in 1..Len(result) :
                result[i].id = p /\ result[i].final_score = 1000
    /\ \E j \in Answered : \E p \in BatchItems(j) :
          /\ HasEntry(j, p) /\ EntryFor(j, p).has_score
          /\ EntryFor(j, p).score < 0

\* C7: when the AI call or the parsing of its response fails for a batch,
\* score_segments does not raise, every item of the batch has aiScore 0.5
\* and a non-empty rationale, and is in the returned list with them.
C7_FailedBatchNeutral ==
    /\ soutcome # "raised"
    /\ \A j \in Answered : BatchFailed(j) =>
          \A p \in BatchItems(j) :
              /\ "ai_score" \in DOMAIN segments[p]
              /\ "ai_rationale" \in DOMAIN segments[p]
              /\ segments[p].ai_score = 50
              /\ segments[p].ai_rationale > 0
              /\ spc = "done" =>
                    /\ soutcome = "returned"
                    /\ Cardinality({i \in 1..Len(result) : result[i].id = p}) = 1
                    /\ \A i \in 1..Len(result) : result[i].id = p =>
                          /\ result[i].ai_score = 50
                          /\ result[i].ai_rationale > 0

\* C7 witness: a run returned after one batch whose call raised and one
\* batch whose response did not parse
C7_Witness ==
    /\ spc = "done"
    /\ soutcome = "returned"
    /\ \E j \in Answered : responses[j].kind = "raise"
    /\ \E j \in Answered : responses[j].kind = "badjson"

\* aiScore and rationale as the response to the item's own batch gives them
OwnAiScore(j, p) ==
    IF HasEntry(j, p)
    THEN IF ~EntryFor(j, p).has_score THEN 50
         ELSE IF EntryFor(j, p).score < 0 THEN 0
         ELSE IF EntryFor(j, p).score > 100 THEN 100
         ELSE EntryFor(j, p).score
    ELSE 50

OwnRationale(j, p) ==
    IF HasEntry(j, p)
    THEN (IF EntryFor(j, p).rationale > 200 THEN 200 ELSE EntryFor(j, p).rationale)
    ELSE IF responses[j].kind = "raise" THEN 19 + responses[j].message
    ELSE 24

\* C8: a failed batch is isolated: the batches after it are still submitted
\* (a finished run submitted every batch, each after the other's answer),
\* and the aiScore and rationale of the items of every batch are those its
\* own response gives them, whatever happened to the other batches.
C8_BatchFailureIsolated ==
    /\ \A j \in 1..Len(requests) :
          /\ requests[j].first = 5 * (j - 1)
          /\ requests[j].first < Len(segments)
    /\ Len(requests) - Len(responses) \in {0, 1}
    /\ spc = "done" =>
          /\ Len(responses) = Len(requests)
          /\ 5 * Len(requests) >= Len(segments)
    /\ \A j \in Answered : \A p \in BatchItems(j) :
          /\ segments[p].ai_score = OwnAiScore(j, p)
          /\ segments[p].ai_rationale = OwnRationale(j, p)

\* C8 witness: the second of three batches failed; items of the first and of
\* the third have the scores the service gave them
C8_Witness ==
    /\ spc = "done"
    /\ Len(responses) = 3
    /\ responses[2].kind = "raise"
    /\ \E p \in BatchItems(1) : HasEntry(1, p) /\ segments[p].ai_score = 37
    /\ \E p \in BatchItems(3) : HasEntry(3, p) /\ segments[p].ai_score = 100

\* C9: at most one AI batch request is in flight at any time, and a batch
\* is submitted only after the batch before it has returned or failed and
\* the inter-batch delay has then elapsed.
C9_OneBatchInFlight ==
    /\ in_flight \in {0, 1}
    /\ in_flight = Cardinality({i \in 1..Len(events) : events[i] = "submit"})
                   - Cardinality({i \in 1..Len(events) : events[i] = "return"})
    /\ \A i \in 1..Len(events) :
          (events[i] = "submit" /\ i > 1) =>
              /\ i >= 4
              /\ events[i - 1] = "sleep"
              /\ events[i - 2] = "return"
              /\ events[i - 3] = "submit"

\* C9 witness: a run of three batches has finished
C9_Witness ==
    /\ spc = "done"
    /\ Cardinality({i \in 1..Len(events) : events[i] = "submit"}) = 3
    /\ Len(requests) = 3

\* the batch a position of the shortlist belongs to
BatchOf(p) == ((p - 1) \div 5) + 1

\* the segment as it was handed to score_segments
AsSubmitted(r) == [id |-> r.id, startS |-> r.startS, endS |-> r.endS, text |-> r.text]

\* C13: the finalScore of every returned segment is 0.7 * aiScore +
\* 0.3 * heuristicScore, clamped to [0,1], with aiScore the value the
\* response to the segment's own batch gives the segment (0.5 when it gives
\* none) and heuristicScore the heuristic score of that same segment.
C13_BlendFormula ==
    spc = "done" =>
        \A i \in 1..Len(result) :
            LET r == result[i]
                ai == OwnAiScore(BatchOf(r.id), r.id)
                h == CalculateHeuristicScore(AsSubmitted(r))
                blend == 7 * ai + 3 * h
            IN  /\ r.ai_score = ai
                /\ r.heuristic_score = h
                /\ r.final_score = blend
                /\ r.score = (IF blend < 0 THEN 0 ELSE IF blend > 1000 THEN 1000
                              ELSE blend)

\* C13 witness: a run of several batches has ended and returned a segment
\* whose AI score came from the service and differs from its heuristic score
C13_Witness ==
    /\ spc = "done"
    /\ Len(result) > 5
    /\ \E i \in 1..Len(result) :
          /\ HasEntry(BatchOf(result[i].id), result[i].id)
          /\ EntryFor(BatchOf(result[i].id), result[i].id).has_score
          /\ result[i].ai_score # result[i].heuristic_score
          /\ result[i].id > 5

\* C14: the returned list is ordered by non-increasing finalScore, and
\* segments of equal finalScore are in the order of the input shortlist
\* (the field id is the position in the shortlist).
C14_RankedStable ==
    spc = "done" =>
        /\ Len(result) = Len(segments)
        /\ \A i \in 1..Len(result) : \A k \in 1..Len(result) :
              i < k =>
                  /\ result[i].final_score >= result[k].final_score
                  /\ result[i].final_score = result[k].final_score =>
                         result[i].id < result[k].id

\* C14 witness: two returned segments got the same AI and heuristic scores,
\* and a segment later in the shortlist is ranked above an earlier one
C14_Witness ==
    /\ spc = "done"
    /\ \E i \in 1..Len(result) : \E k \in 1..Len(result) :
          /\ result[i].id # result[k].id
          /\ result[i].ai_score = result[k].ai_score
          /\ result[i].heuristic_score = result[k].heuristic_score
    /\ \E i \in 1..Len(result) : \E k \in 1..Len(result) :
          i < k /\ result[i].id > result[k].id

\* C15: the heuristic score depends on text and duration alone: any two
\* scored segments with the same text and the same duration carry the same
\* heuristic score, whatever their batches, their positions in the
\* shortlist and the AI results attached to them.
C15_HeuristicPure ==
    \A p \in 1..Len(segments) : \A q \in 1..Len(segments) :
        ( /\ "heuristic_score" \in DOMAIN segments[p]
          /\ "heuristic_score" \in DOMAIN segments[q]
          /\ segments[p].text = segments[q].text
          /\ segments[p].endS - segments[p].startS
                = segments[q].endS - segments[q].startS )
        => segments[p].heuristic_score = segments[q].heuristic_score

\* C15 witness: two segments of the same text and duration were scored in
\* different batches, at different positions, with different AI scores and
\* rationales
C15_Witness ==
    /\ spc = "done"
    /\ \E p \in 1..Len(segments) : \E q \in 1..Len(segments) :
          /\ BatchOf(p) # BatchOf(q)
          /\ segments[p].text = segments[q].text
          /\ segments[p].endS - segments[p].startS
                = segments[q].endS - segments[q].startS
          /\ "heuristic_score" \in DOMAIN segments[p]
          /\ "heuristic_score" \in DOMAIN segments[q]
          /\ segments[p].ai_score # segments[q].ai_score
          /\ segments[p].ai_rationale # segments[q].ai_rationale

\* C20: the shortlist of n segments is submitted in ceil(n/5) batches of
\* consecutive segments, each of 5 but possibly the last; every segment is
\* submitted in exactly one batch; an empty shortlist causes no request.
C20_BatchesPartition ==
    LET n == Len(segments)
    IN  /\ \A j \in 1..Len(requests) :
              /\ requests[j].first = 5 * (j - 1)
              /\ requests[j].size >= 1
              /\ requests[j].first + requests[j].size <= n
              /\ requests[j].size = 5 \/ requests[j].first + requests[j].size = n
        /\ n = 0 => requests = <<>>
        /\ spc = "done" =>
              /\ Len(requests) = (n + 4) \div 5
              /\ \A p \in 1..n :
                    Cardinality({j \in 1..Len(requests) : p \in BatchItems(j)}) = 1

\* C20 witness: a shortlist that is no multiple of 5 was scored in three
\* batches, the last one short
C20_Witness ==
    /\ spc = "done"
    /\ Len(requests) = 3
    /\ requests[3].size < 5
    /\ requests[1].size = 5

\* C20 witness of the empty shortlist: the call returned without a request
C20_EmptyWitness == spc = "done" /\ segments = <<>> /\ requests = <<>>

\* what an entry of a response gives the item it is for: the score in
\* [0,1] (0.5 when the entry has none), the first 200 characters of the
\* rationale, the first 50 of the title
GivenBy(e) ==
    [ai_score |-> IF ~e.has_score THEN 50
                  ELSE IF e.score < 0 THEN 0
                  ELSE IF e.score > 100 THEN 100 ELSE e.score,
     ai_rationale |-> IF e.rationale > 200 THEN 200 ELSE e.rationale,
     suggested_title |-> IF e.suggested_title > 50 THEN 50 ELSE e.suggested_title]

\* the segment at position p carries what the entry gives
Carries(p, e) ==
    /\ "suggested_title" \in DOMAIN segments[p]
    /\ segments[p].ai_score = GivenBy(e).ai_score
    /\ segments[p].ai_rationale = GivenBy(e).ai_rationale
    /\ segments[p].suggested_title = GivenBy(e).suggested_title

\* C21: when the response is a well-formed array with free text before or
\* after it, whatever that text, the items of the batch receive the scores
\* of the array and not the neutral defaults; and no response makes the
\* call raise.
C21_ArrayInProseExtracted ==
    /\ soutcome # "raised"
    /\ \A j \in Answered :
          responses[j].kind = "array" =>
              \A p \in BatchItems(j) :
                  p - requests[j].first <= Len(responses[j].entries)
                      => Carries(p, responses[j].entries[p - requests[j].first])

\* C22: what a parsed response attaches to a segment is bounded: aiScore in
\* [0,1], rationale of at most 200 characters, title of at most 50; and no
\* item text sent to the AI service is longer than 500 characters.
C22_ValuesBounded ==
    /\ \A j \in Answered : \A p \in BatchItems(j) :
          /\ 0 <= segments[p].ai_score /\ segments[p].ai_score <= 100
          /\ HasEntry(j, p) =>
                /\ segments[p].ai_rationale <= 200
                /\ segments[p].suggested_title <= 50
    /\ \A j \in 1..Len(requests) : \A k \in 1..Len(requests[j].items) :
          requests[j].items[k].text <= 500

\* C22 witness: a parsed response gave a score above 1, a rationale of more
\* than 200 characters and a title of more than 50 to items of a batch, and
\* a segment with a text of more than 500 characters was sent
C22_Witness ==
    /\ \E j \in Answered : \E p \in BatchItems(j) :
          HasEntry(j, p) /\ EntryFor(j, p).has_score /\ EntryFor(j, p).score > 100
    /\ \E j \in Answered : \E p \in BatchItems(j) :
          HasEntry(j, p) /\ EntryFor(j, p).rationale > 200
    /\ \E j \in Answered : \E p \in BatchItems(j) :
          HasEntry(j, p) /\ EntryFor(j, p).suggested_title > 50
    /\ \E j \in 1..Len(requests) : \E p \in BatchItems(j) :
          segments[p].text.len > 500

\* C29: each item of a batch receives the score, rationale and title of
\* the entry of the response whose id is the id the item was sent with,
\* whatever the order of the entries; an item without such an entry receives
\* the neutral 0.5 and a rationale that is not empty.
C29_EntriesMatchedById ==
    \A j \in Answered :
        ArrayFound(j) =>
            \A p \in BatchItems(j) :
                LET sent == requests[j].items[p - requests[j].first].id
                    own == {k \in 1..Len(responses[j].entries) :
                               responses[j].entries[k].id = sent}
                IN  IF own # {}
                    THEN \E k \in own : Carries(p, responses[j].entries[k])
                    ELSE segments[p].ai_score = 50 /\ segments[p].ai_rationale > 0

\* the items of the j-th submitted batch that carry an AI score
ScoredItems(j) == {p \in BatchItems(j) : "ai_score" \in DOMAIN segments[p]}

\* C23: a cancellation takes effect only between two batches: when the run
\* is cancelled every batch that was started has got its response and all
\* its items their results, and at no time has an answered batch only some
\* of its items scored.
C23_CancelAtBatchBoundary ==
    /\ soutcome = "cancelled" =>
          /\ in_flight = 0
          /\ Len(responses) = Len(requests)
          /\ \A j \in 1..Len(requests) : ScoredItems(j) = BatchItems(j)
    /\ \A j \in 1..Len(requests) :
          IF j \in Answered THEN ScoredItems(j) = BatchItems(j)
          ELSE ScoredItems(j) = {}

\* C23 witness: the run was cancelled after its first batch, with segments
\* left that were never submitted
C23_Witness ==
    /\ soutcome = "cancelled"
    /\ Len(requests) = 1
    /\ Len(segments) > 5
    /\ \E p \in 1..Len(segments) : "ai_score" \notin DOMAIN segments[p]

\* the duration band of the heuristic score, in hundredths
Band(d) ==
    IF 30 <= d /\ d <= 60 THEN 15
    ELSE IF (15 <= d /\ d < 30) \/ (60 < d /\ d <= 90) THEN 5
    ELSE 0 - 10

\* C25: the heuristic score of a segment is 0.5 + band + content bonuses,
\* clamped to [0,1], with band +0.15 for a duration in [30,60], +0.05 for
\* one in [15,30) or (60,90] and -0.1 for any other; 30 and 60 are in the
\* +0.15 band, 15 and 90 in the +0.05 band.
C25_HeuristicBands ==
    \A p \in 1..Len(segments) :
        "heuristic_score" \in DOMAIN segments[p] =>
            LET raw == 50 + Band(segments[p].endS - segments[p].startS)
                       + ContentBonus(segments[p].text)
            IN  segments[p].heuristic_score
                    = (IF raw < 0 THEN 0 ELSE IF raw > 100 THEN 100 ELSE raw)

\* the segments of that duration that got a heuristic score
ScoredOfDuration(d) ==
    {p \in 1..Len(segments) :
        /\ "heuristic_score" \in DOMAIN segments[p]
        /\ segments[p].endS - segments[p].startS = d}

\* C25 witness: segments of 10, 15, 30, 60, 90 and 100 seconds were scored,
\* and the sum of one of them was above 1 before the clamp
C25_Witness ==
    /\ spc = "done"
    /\ \A d \in {10, 15, 30, 60, 90, 100} : ScoredOfDuration(d) # {}
    /\ \E p \in 1..Len(segments) :
          /\ segments[p].heuristic_score = 100
          /\ 50 + Band(segments[p].endS - segments[p].startS)
                + ContentBonus(segments[p].text) > 100

----------------------------------------------------------------------------
(* Properties of generate_segments *)

\* C10 as stated: when the transcript is not empty and no candidate survives
\* the filter pass, generate_segments ends with an error.
C10_NoCandidatesIsError ==
    (pc = "done" /\ transcript # <<>> /\ idx > 0 /\ filtered = <<>>) => outcome = "raised"

\* C10 amended: when the transcript is not empty and no candidate survives
\* the filter pass, generate_segments returns the empty list and raises
\* nothing.
C10_NoCandidatesReturnsEmpty ==
    (pc = "done" /\ transcript # <<>> /\ idx > 0 /\ filtered = <<>>) =>
        /\ outcome = "returned"
        /\ final_segments = <<>>

\* C10 witness: the generators produced candidates from a transcript, the
\* filter dropped them all, and the call has ended
C10_Witness ==
    /\ pc = "done"
    /\ transcript # <<>>
    /\ pool # <<>>
    /\ idx > 0
    /\ filtered = <<>>
    /\ outcome = "returned"

\* the generators ran and their candidates were pooled
Generated == pc \in {"filter", "sweep", "return", "done"} /\ outcome # "raised"

\* C11: for a transcript without segments generate_segments ends with an
\* error before any generator runs: it never reaches the pooling or the
\* filter, pools nothing and returns no candidates.
C11_EmptyTranscriptAborts ==
    transcript = <<>> =>
        /\ pc \in {"start", "done"}
        /\ pool = <<>>
        /\ final_segments = <<>>
        /\ outcome # "returned"
        /\ pc = "done" => outcome = "raised"

C11_Witness == transcript = <<>> /\ pc = "done" /\ outcome = "raised"

\* what the generators that use no encoder give for the transcript
EncoderFreeCandidates ==
    SegmentBySilence(transcript) \o SegmentBySpeakerChange(transcript)

\* C12: when the semantic encoder fails, generate_segments still returns:
\* it pools the candidates of the silence-gap and speaker-change generators
\* and consolidates them.
C12_GeneratorFailureIsolated ==
    (encoder = "raises" /\ transcript # <<>>) =>
        /\ outcome # "raised"
        /\ pc # "start" => pool = WithOids(EncoderFreeCandidates)
        /\ pc = "done" => outcome = "returned"

\* the candidates of one generator, in the order it emitted them
CandidatesOf(strat) == SelectSeq(pool, LAMBDA c : c.strategy = strat)

\* the silence between segment i and the next one
GapAt(i) == transcript[i + 1].start - transcript[i].end

\* the window around that silence, clipped to the transcript
WindowLo(i) ==
    IF transcript[i].end - 30 < 0 THEN 0 ELSE transcript[i].end - 30

WindowHi(i) ==
    IF transcript[i + 1].start + 30 > transcript[Len(transcript)].end
    THEN transcript[Len(transcript)].end
    ELSE transcript[i + 1].start + 30

\* some segment with a text that is not blank lies entirely in the window
WindowHasText(i) ==
    \E k \in 1..Len(transcript) :
        /\ transcript[k].start >= WindowLo(i)
        /\ transcript[k].end <= WindowHi(i)
        /\ \E x \in 1..Len(transcript[k].text) : transcript[k].text[x] # " "

\* the candidates are those of the pairs in G, in order, each spanning the
\* window of its pair
SilenceCandidatesAre(G) ==
    LET cands == CandidatesOf("silence_boundary")
    IN  /\ Len(cands) = Cardinality(G)
        /\ \A i \in G :
              LET c == cands[Cardinality({j \in G : j <= i})]
              IN  c.start = WindowLo(i) /\ c.end = WindowHi(i)

\* C16 as stated: the silence-gap generator emits a candidate for every
\* pair of consecutive segments whose gap is at least 2 seconds, a gap of
\* exactly 2 seconds included, spanning the clipped window of 30 seconds
\* around the gap.
C16_SilenceAtLeastTwoSeconds ==
    Generated =>
        SilenceCandidatesAre({i \in 1..(Len(transcript) - 1) : GapAt(i) >= 2})

\* C16 amended: the silence-gap generator emits a candidate exactly for the
\* pairs of consecutive segments whose gap is more than 2 seconds and whose
\* clipped window of 30 seconds around the gap holds at least one whole
\* segment with a text that is not blank; the candidate spans that window.
C16_SilenceMoreThanTwoSeconds ==
    Generated =>
        SilenceCandidatesAre({i \in 1..(Len(transcript) - 1) :
                                 GapAt(i) > 2 /\ WindowHasText(i)})

\* C16 witness: a transcript with a gap of exactly 2 seconds and a gap of
\* 3 seconds whose window is clipped at neither end gave a silence candidate
C16_Witness ==
    /\ Generated
    /\ CandidatesOf("silence_boundary") # <<>>
    /\ \E i \in 1..(Len(transcript) - 1) : GapAt(i) = 2
    /\ \E i \in 1..(Len(transcript) - 1) :
          /\ GapAt(i) = 3
          /\ WindowHasText(i)
          /\ WindowLo(i) > 0
          /\ WindowHi(i) < transcript[Len(transcript)].end

\* Runs of segments.  starts is the set of segments that begin a run.
\* the last segment of the run that begins at segment i
RunEndOf(starts, i) ==
    CHOOSE k \in i..Len(transcript) :
        /\ k = Len(transcript) \/ (k + 1) \in starts
        /\ \A m \in (i + 1)..k : m \notin starts

\* the texts of segments i..k joined by single blanks
RECURSIVE RunText(_, _)
RunText(i, k) ==
    IF k = i THEN transcript[i].text
    ELSE RunText(i, k - 1) \o <<" ">> \o transcript[k].text

\* cands are the candidates of the runs in emitted, in time order: each
\* starts where its run's first segment starts and carries the texts of
\* exactly the run's segments; with_end: it ends where its run's last
\* segment ends
RunCandidatesAre(cands, starts, emitted, with_end) ==
    /\ Len(cands) = Cardinality(emitted)
    /\ \A i \in emitted :
          LET c == cands[Cardinality({j \in emitted : j <= i})]
              k == RunEndOf(starts, i)
          IN  /\ c.start = transcript[i].start
              /\ c.text = RunText(i, k)
              /\ with_end => c.end = transcript[k].end

\* segments i - 1 and i have the same speaker: the same label, or none both
SameSpeaker(i) ==
    IF "speaker" \in DOMAIN transcript[i]
    THEN "speaker" \in DOMAIN transcript[i - 1]
         /\ transcript[i - 1].speaker = transcript[i].speaker
    ELSE "speaker" \notin DOMAIN transcript[i - 1]

SpeakerRunStarts == {i \in 1..Len(transcript) : i = 1 \/ ~SameSpeaker(i)}

\* C17: the speaker-change generator emits nothing when no segment carries
\* a speaker label; otherwise it emits one candidate per maximal run of
\* consecutive segments of the same speaker, in time order, each starting at
\* the start of its run's first segment with the joined text of exactly its
\* run's segments.
C17_SpeakerRuns ==
    Generated =>
        IF \A i \in 1..Len(transcript) : "speaker" \notin DOMAIN transcript[i]
        THEN CandidatesOf("speaker_change") = <<>>
        ELSE RunCandidatesAre(CandidatesOf("speaker_change"), SpeakerRunStarts,
                              SpeakerRunStarts, FALSE)

\* C17 witness: a transcript where some segments carry a label and some
\* none gave several speaker candidates, one of them for a run of two or
\* more segments
C17_Witness ==
    /\ Generated
    /\ Len(CandidatesOf("speaker_change")) >= 2
    /\ \E i \in SpeakerRunStarts : RunEndOf(SpeakerRunStarts, i) > i
    /\ \E i \in 1..Len(transcript) : "speaker" \notin DOMAIN transcript[i]

\* a window closes before segment i: the similarity of segments i - 1 and i
\* is below 0.7
TopicRunStarts ==
    {i \in 1..Len(transcript) : i = 1 \/ low_similarity[i - 1]}

\* C18 as stated: for two or more segments with d similarity drops the
\* topic-shift generator emits d + 1 candidates, one per run of consecutive
\* segments between the drops, each from its first segment's start to its
\* last segment's end with the texts of its segments, at base score 0.6;
\* every segment is in exactly one candidate.
C18_TopicRunsAll ==
    (Generated /\ Len(transcript) >= 2) =>
        /\ RunCandidatesAre(CandidatesOf("topic_change"), TopicRunStarts,
                            TopicRunStarts, TRUE)
        /\ \A i \in 1..Len(CandidatesOf("topic_change")) :
              CandidatesOf("topic_change")[i].preliminary_score = 600

\* the runs the generator emits: all but a last run that does not start
\* before the end of the last segment
TopicRunsEmitted ==
    {i \in TopicRunStarts :
        RunEndOf(TopicRunStarts, i) = Len(transcript)
            => transcript[i].start < transcript[Len(transcript)].end}

\* C18 amended: as stated, except that the candidate of the last run is
\* left out when that run's first segment does not start before the last
\* segment's end (a last segment of no length right after a drop): then
\* there are d candidates and the last run's segments are in none.
C18_TopicRuns ==
    (Generated /\ Len(transcript) >= 2) =>
        /\ RunCandidatesAre(CandidatesOf("topic_change"), TopicRunStarts,
                            TopicRunsEmitted, TRUE)
        /\ \A i \in 1..Len(CandidatesOf("topic_change")) :
              CandidatesOf("topic_change")[i].preliminary_score = 600

\* C18 witness: a transcript with drops, one of them right before a last
\* segment of no length, and a run of two or more segments
C18_Witness ==
    /\ Generated
    /\ Len(transcript) >= 3
    /\ TopicRunsEmitted # TopicRunStarts
    /\ Len(CandidatesOf("topic_change")) >= 2
    /\ \E i \in TopicRunsEmitted : RunEndOf(TopicRunStarts, i) > i

\* the labels of segments i - 1 and i differ
SemanticRunStarts ==
    {i \in 1..Len(transcript) : i = 1 \/ cluster_labels[i] # cluster_labels[i - 1]}

\* C19: the semantic-cluster generator emits nothing for fewer than 5
\* segments; for n >= 5 it asks for k = min(10, n div 3) clusters, with
\* 1 <= k <= n, and emits one candidate per maximal run of consecutive
\* segments of one label: in time order, each from its run's first segment
\* to its run's last, so that every segment is in exactly one candidate.
C19_SemanticRuns ==
    Generated =>
        IF Len(transcript) < 5
        THEN CandidatesOf("semantic_boundary") = <<>>
        ELSE LET n == Len(transcript)
                 k == IF n \div 3 < 10 THEN n \div 3 ELSE 10
             IN  /\ ClusterCount(n) = k
                 /\ 1 <= k /\ k <= n
                 /\ RunCandidatesAre(CandidatesOf("semantic_boundary"),
                                     SemanticRunStarts, SemanticRunStarts, TRUE)

\* C19 witness: a transcript of 5 or more segments whose labels change and
\* come back gave several semantic candidates, one for a run of two or more
C19_Witness ==
    /\ Generated
    /\ Len(transcript) >= 5
    /\ Len(CandidatesOf("semantic_boundary")) >= 3
    /\ \E i \in SemanticRunStarts : RunEndOf(SemanticRunStarts, i) > i

\* the shortlists score_segments can have been called with, given the length
InputsOfLength(n) == {Shortlist(n, off) : off \in {0, 4}}

\* C30: whatever the batches did, scoring leaves the id, startS, endS and
\* text of each segment as they were in the input shortlist, and the list
\* returned holds every input segment exactly once and nothing else.
C30_ResultIsPermutation ==
    \E input \in InputsOfLength(Len(segments)) :
        /\ \A p \in 1..Len(segments) : AsSubmitted(segments[p]) = input[p]
        /\ soutcome = "returned" =>
              /\ Len(result) = Len(input)
              /\ \A p \in 1..Len(input) :
                    \E k \in 1..Len(result) :
                        /\ AsSubmitted(result[k]) = input[p]
                        /\ \A m \in 1..Len(result) :
                              AsSubmitted(result[m]) = input[p] => m = k

\* C30 witness: a list of more than one batch was returned in another order
\* than it came in, one batch scored from an array and another failed
C30_Witness ==
    /\ soutcome = "returned"
    /\ Len(result) > BatchSize
    /\ \E k \in 1..Len(result) : result[k].id # k
    /\ \E j \in Answered : ArrayFound(j)
    /\ \E j \in Answered : BatchFailed(j)

====
